---- MODULE Spec2Model ----
(***************************************************************************)
(* Model of facematch/face_matching.py: FaceMatcher.recoginze and the     *)
(* module-level function find_closest.                                    *)
(*                                                                         *)
(* A FaceMatcher is constructed with a reference (names + embeddings).     *)
(* recoginze(image, threshold) asks the detector for faces, the encoder   *)
(* for one embedding per face, find_closest for the best reference of     *)
(* every embedding, and assembles one dict per face, sorted by the left   *)
(* coordinate of the box.  Embeddings are integer vectors, so that the     *)
(* dot products, the maxima and the comparisons with the threshold are    *)
(* exact.  Python indices are 0-based and are kept 0-based in the values  *)
(* of the model (best_matches, 'id'); TLA+ sequences are 1-based, so an    *)
(* index i of the code reads element i + 1 of a sequence.                  *)
(***************************************************************************)
EXTENDS Integers, Sequences, FiniteSets, TLC

VARIABLES
    reference,   \* self.reference: [names, embeddings], set by __init__
    op,          \* the call made on the module: "none", "recoginze", "find_closest"
    detected,    \* what detector.find_faces returned in the recoginze call
    embeddings,  \* what encoder.calculate_embeddings returned in that call
    threshold,   \* the threshold argument of the recoginze call
    ret,         \* outcome of recoginze: returned list or raised exception
    calls,       \* collaborators and functions recoginze invoked, in order
    fc_in,       \* arguments of the latest find_closest invocation
    fc_out       \* outcome of the latest find_closest invocation

vars == <<reference, op, detected, embeddings, threshold, ret, calls,
          fc_in, fc_out>>

---------------------------------------------------------------------------
(* Bounds and input domains                                                *)

MaxFaces == 3
MaxRefs == 2

Vectors == {<<1, 0>>, <<0, 1>>}
Names == {"alice", "bob"}
Lefts == {10, 30, 50}
Tops == {7}
Thresholds == {0, 1}

SeqsUpTo(S, n) == UNION {[1..k -> S] : k \in 0..n}

Boxes == Lefts \X Tops
Faces == [box : Boxes, image : {"face"}]

\* Reference store: names and embeddings of the same length M, 0 <= M <= MaxRefs.
References ==
    UNION {[names : [1..m -> Names], embeddings : [1..m -> Vectors]] : m \in 0..MaxRefs}

---------------------------------------------------------------------------
(* Outcomes of a call                                                      *)

NotCalled == [kind |-> "none"]
Return(v) == [kind |-> "return", value |-> v]
Raise(e) == [kind |-> "raise", exc |-> e]

---------------------------------------------------------------------------
(* find_closest (lines 66-92)                                              *)

\* Inner product of two vectors of the same dimension (one cell of np.dot).
RECURSIVE dot_from(_, _, _)
dot_from(a, b, k) ==
    IF k > Len(a) THEN 0 ELSE a[k] * b[k] + dot_from(a, b, k + 1)

dot(a, b) == dot_from(a, b, 1)

\* np.dot(embeddings, references.T): an array of shape (N, M).  The shape is
\* kept beside the rows, since an array with N = 0 rows still has M columns.
np_dot(embs, refs) ==
    [shape |-> <<Len(embs), Len(refs)>>,
     rows  |-> [i \in 1..Len(embs) |-> [j \in 1..Len(refs) |-> dot(embs[i], refs[j])]]]

\* argmax over a non-empty row: a left-to-right scan that moves only to a
\* strictly greater value, so the first occurrence of the maximum wins.
RECURSIVE argmax_scan(_, _, _)
argmax_scan(row, j, best) ==
    IF j > Len(row) THEN best
    ELSE argmax_scan(row, j + 1, IF row[j] > row[best] THEN j ELSE best)

\* the same scan moving on a greater or equal value: the last occurrence wins
RECURSIVE argmax_scan_last(_, _, _)
argmax_scan_last(row, j, best) ==
    IF j > Len(row) THEN best
    ELSE argmax_scan_last(row, j + 1, IF row[j] >= row[best] THEN j ELSE best)

argmax_row_last(row) == argmax_scan_last(row, 2, 1) - 1

\* 0-based index of the first maximum of a non-empty row
argmax_row(row) == argmax_scan(row, 2, 1) - 1

RECURSIVE amax_scan(_, _, _)
amax_scan(row, j, best) ==
    IF j > Len(row) THEN best
    ELSE amax_scan(row, j + 1, IF row[j] > best THEN row[j] ELSE best)

RECURSIVE amin_scan(_, _, _)
amin_scan(row, j, best) ==
    IF j > Len(row) THEN best
    ELSE amin_scan(row, j + 1, IF row[j] < best THEN row[j] ELSE best)

\* the minimum of the row instead of its maximum
amin_row(row) == amin_scan(row, 2, row[1])

\* maximum of a non-empty row
amax_row(row) == amax_scan(row, 2, row[1])

\* cosines.argmax(axis=1): numpy raises ValueError ("attempt to get argmax of
\* an empty sequence") when the reduced axis has length 0, whatever N is.
argmax_axis1(c) ==
    IF c.shape[2] = 0 THEN Raise("ValueError")
    ELSE Return([i \in 1..c.shape[1] |-> argmax_row(c.rows[i])])

\* cosines.max(axis=1), reached only after argmax succeeded (M >= 1)
amax_axis1(c) == [i \in 1..c.shape[1] |-> amax_row(c.rows[i])]

\* an engine that answers index 0 and score 0 for every candidate when there
\* is no reference, instead of failing
find_closest_degenerate(embs, refs) ==
    LET cosines == np_dot(embs, refs)
    IN  IF Len(refs) = 0
        THEN Return(<<[i \in 1..Len(embs) |-> 0], [i \in 1..Len(embs) |-> 0]>>)
        ELSE Return(<<argmax_axis1(cosines).value, amax_axis1(cosines)>>)

\* find_closest(embeddings, references) -> (best_matches, distances)
find_closest(embs, refs) ==
    LET cosines == np_dot(embs, refs)
        best_matches == argmax_axis1(cosines)
    IN  IF best_matches.kind = "raise" THEN best_matches
        ELSE Return(<<best_matches.value, amax_axis1(cosines)>>)

---------------------------------------------------------------------------
(* Collaborators of FaceMatcher (facematch.face_detection and              *)
(* facematch.face_encoding are imported, lines 10-11, and used as black    *)
(* boxes): the sets of values they may hand back.                          *)

\* detector.find_faces(image): any sequence of at most MaxFaces faces
find_faces == SeqsUpTo(Faces, MaxFaces)

\* encoder.calculate_embeddings(face_images): one embedding per face image
calculate_embeddings(face_images) == [1..Len(face_images) -> Vectors]

\* an encoder that may hand back any number of embeddings (malformed output)
calculate_embeddings_any(face_images) == SeqsUpTo(Vectors, MaxFaces)

---------------------------------------------------------------------------
(* FaceMatcher.recoginze (lines 24-63)                                     *)

\* line 44, `not detected`: never taken
no_faces_never(det) == FALSE

\* line 44, `not detected`: the detector found no face
no_faces(det) == det = <<>>

\* line 46
face_images(det) == [i \in 1..Len(det) |-> det[i].image]

\* line 53
boxes_of(det) == [i \in 1..Len(det) |-> det[i].box]

\* line 52: [self.reference.names[i] for i in best_matches]; a list index
\* past the end of names raises IndexError
lookup_names(names, best_matches) ==
    IF \E k \in 1..Len(best_matches) : best_matches[k] >= Len(names)
    THEN Raise("IndexError")
    ELSE Return([k \in 1..Len(best_matches) |-> names[best_matches[k] + 1]])

\* line 58 with an empty label for an unmatched face
best_match_or_empty(name, distance, thr) ==
    IF distance > thr THEN name ELSE ""

\* line 58: name if distance > threshold else 'unknown'
best_match_of(name, distance, thr) ==
    IF distance > thr THEN name ELSE "unknown"

\* line 59 with a non-strict comparison
distance_of_ge(distance, thr) ==
    IF distance >= thr THEN distance ELSE -1

\* line 59: distance.item() if distance > threshold else -1
distance_of(distance, thr) ==
    IF distance > thr THEN distance ELSE -1

Min2(a, b) == IF a <= b THEN a ELSE b

\* zip(boxes, names, distances) stops at the shortest of its arguments
zip_len(boxes, names, distances) ==
    Min2(Len(boxes), Min2(Len(names), Len(distances)))

\* lines 55-61: one dict per zipped (box, name, distance), 'id' from enumerate
all_results(boxes, names, distances, thr) ==
    [k \in 1..zip_len(boxes, names, distances) |->
        [id          |-> k - 1,
         coordinates |-> boxes[k],
         best_match  |-> best_match_of(names[k], distances[k], thr),
         distance    |-> distance_of(distances[k], thr)]]

IsKnown(r) == r.best_match # "unknown"

\* lines 55-61 keeping only the faces that matched a reference
build_result_known_only(boxes, names, distances, thr) ==
    SelectSeq(all_results(boxes, names, distances, thr), IsKnown)

\* lines 55-61
build_result(boxes, names, distances, thr) ==
    all_results(boxes, names, distances, thr)

\* key of line 62: x['coordinates'][0], the left coordinate of the box
sort_key(x) == x.coordinates[1]

\* Insert x into a sorted sequence after every element whose key is less
\* than or equal to the key of x: the insertion step of a stable sort.
RECURSIVE insert_stable(_, _)
insert_stable(s, x) ==
    IF s = <<>> THEN <<x>>
    ELSE IF sort_key(x) < sort_key(Head(s)) THEN <<x>> \o s
    ELSE <<Head(s)>> \o insert_stable(Tail(s), x)

\* Insertion before the elements of equal key: sorts, but is not stable.
RECURSIVE insert_unstable(_, _)
insert_unstable(s, x) ==
    IF s = <<>> THEN <<x>>
    ELSE IF sort_key(x) <= sort_key(Head(s)) THEN <<x>> \o s
    ELSE <<Head(s)>> \o insert_unstable(Tail(s), x)

RECURSIVE sort_from(_, _, _)
sort_from(result, k, acc) ==
    IF k > Len(result) THEN acc
    ELSE sort_from(result, k + 1, insert_stable(acc, result[k]))

RECURSIVE sort_unstable_from(_, _, _)
sort_unstable_from(result, k, acc) ==
    IF k > Len(result) THEN acc
    ELSE sort_unstable_from(result, k + 1, insert_unstable(acc, result[k]))

\* a sort by the same key that reverses the order of equal keys
sorted_unstable(result) == sort_unstable_from(result, 1, <<>>)

\* the stable sort followed by a renumbering of 'id' by sorted position
sorted_renumbered(result) ==
    LET s == sort_from(result, 1, <<>>)
    IN  [k \in 1..Len(s) |-> [s[k] EXCEPT !.id = k - 1]]

\* line 62: sorted(result, key=lambda x: x['coordinates'][0]); Python's
\* sorted is stable
sorted_by_left(result) == sort_from(result, 1, <<>>)

\* The whole call.  det is what the detector returns, enc what the encoder
\* returns if it is asked; the record holds the outcome of the call, the
\* invocations made, in order, and what was passed to and came out of
\* find_closest.
recoginze(ref, det, enc, thr) ==
    IF no_faces(det)
    THEN [ret |-> Return(<<>>), calls |-> <<"find_faces">>,
          embeddings |-> <<>>, fc_in |-> NotCalled, fc_out |-> NotCalled]
    ELSE
      LET found == find_closest(enc, ref.embeddings)
          names == IF found.kind = "raise" THEN found
                   ELSE lookup_names(ref.names, found.value[1])
          outcome ==
              IF names.kind = "raise" THEN names
              ELSE Return(sorted_by_left(
                       build_result(boxes_of(det), names.value, found.value[2], thr)))
      IN  [ret |-> outcome,
           calls |-> <<"find_faces", "calculate_embeddings", "find_closest">>,
           embeddings |-> enc,
           fc_in |-> [kind |-> "call", embeddings |-> enc,
                     references |-> ref.embeddings],
           fc_out |-> found]

---------------------------------------------------------------------------
(* State machine.  A matcher is constructed with a reference; a behaviour   *)
(* then makes one call, of recoginze or of find_closest: the calls keep no  *)
(* state, so one call from the constructed object covers every call.       *)

Init ==
    /\ reference \in References
    /\ op = "none"
    /\ detected = <<>>
    /\ embeddings = <<>>
    /\ threshold = 0
    /\ ret = NotCalled
    /\ calls = <<>>
    /\ fc_in = NotCalled
    /\ fc_out = NotCalled

RecognizeWith(det, enc, thr) ==
    \E r \in {recoginze(reference, det, enc, thr)} :
        /\ op' = "recoginze"
        /\ detected' = det
        /\ threshold' = thr
        /\ embeddings' = r.embeddings
        /\ ret' = r.ret
        /\ calls' = r.calls
        /\ fc_in' = r.fc_in
        /\ fc_out' = r.fc_out
        /\ UNCHANGED reference

\* recoginze(image, threshold) with collaborators that keep their contracts
Recognize ==
    /\ op = "none"
    /\ \E det \in find_faces, thr \in Thresholds :
           \E enc \in calculate_embeddings(face_images(det)) :
               RecognizeWith(det, enc, thr)

\* recoginze(image, threshold) with an encoder free to return any number of
\* embeddings
RecognizeUpstream ==
    /\ op = "none"
    /\ \E det \in find_faces, thr \in Thresholds :
           \E enc \in calculate_embeddings_any(face_images(det)) :
               RecognizeWith(det, enc, thr)

\* a direct call find_closest(embeddings, references)
FindClosest ==
    /\ op = "none"
    /\ \E embs \in SeqsUpTo(Vectors, MaxFaces) :
           /\ op' = "find_closest"
           /\ fc_in' = [kind |-> "call", embeddings |-> embs,
                     references |-> reference.embeddings]
           /\ fc_out' = find_closest(embs, reference.embeddings)
           /\ UNCHANGED <<reference, detected, embeddings, threshold, ret, calls>>

Next == Recognize \/ FindClosest

Spec == Init /\ [][Next]_vars

NextUpstream == RecognizeUpstream \/ FindClosest

SpecUpstream == Init /\ [][NextUpstream]_vars

---------------------------------------------------------------------------
(* Properties                                                              *)

Returned == op = "recoginze" /\ ret.kind = "return"
FcCalled == fc_in.kind = "call"
FcReturned == fc_in.kind = "call" /\ fc_out.kind = "return"

\* similarity of candidate i (1-based) of the latest find_closest invocation
\* with reference j (1-based)
Sim(i, j) == dot(fc_in.embeddings[i], fc_in.references[j])

Left(r) == r.coordinates[1]

\* C1: in recoginze, for every detected face i: if the best similarity of the
\* face is strictly greater than threshold, its result carries the name
\* reference.names[best_index[i]] and the raw best similarity as score;
\* otherwise (equality included) it carries "unknown" and score -1.
C1_ThresholdDecision ==
    Returned =>
        \A i \in 1..Len(detected) :
            \E p \in 1..Len(ret.value) :
                /\ ret.value[p].id = i - 1
                /\ ret.value[p].coordinates = detected[i].box
                /\ IF fc_out.value[2][i] > threshold
                   THEN /\ ret.value[p].best_match =
                               reference.names[fc_out.value[1][i] + 1]
                        /\ ret.value[p].distance = fc_out.value[2][i]
                   ELSE /\ ret.value[p].best_match = "unknown"
                        /\ ret.value[p].distance = -1

\* a returned list with a face whose best similarity equals the threshold
\* (unknown) and a face whose best similarity exceeds it (named)
C1_Witness ==
    /\ Returned
    /\ \E i, k \in 1..Len(detected) :
          /\ fc_out.value[2][i] = threshold
          /\ fc_out.value[2][k] > threshold
          /\ \E p, q \in 1..Len(ret.value) :
                /\ ret.value[p].id = i - 1
                /\ ret.value[p].best_match = "unknown"
                /\ ret.value[q].id = k - 1
                /\ ret.value[q].distance = fc_out.value[2][k]

\* C2: the list returned by recoginze is ordered by the left coordinate of
\* the box, ascending, and results with equal left coordinate keep their
\* detection order.
C2_SortedStable ==
    Returned =>
        \A p, q \in 1..Len(ret.value) :
            p < q =>
                /\ Left(ret.value[p]) <= Left(ret.value[q])
                /\ Left(ret.value[p]) = Left(ret.value[q])
                       => ret.value[p].id < ret.value[q].id

\* three faces detected out of order, two of them with the same left
\* coordinate
C2_Witness ==
    /\ Returned
    /\ Len(ret.value) = 3
    /\ detected[1].box[1] > detected[2].box[1]
    /\ detected[2].box[1] = detected[3].box[1]

\* C3: a returned list has as many results as the detector returned faces,
\* and every box is carried by as many results as faces.
C3_OneResultPerFace ==
    Returned =>
        /\ Len(ret.value) = Len(detected)
        /\ \A b \in Boxes :
              Cardinality({p \in 1..Len(ret.value) : ret.value[p].coordinates = b})
                  = Cardinality({i \in 1..Len(detected) : detected[i].box = b})

\* three faces, of which at least one is named and one unknown
C3_Witness ==
    /\ Returned
    /\ Len(detected) = 3
    /\ \E p, q \in 1..Len(ret.value) :
          /\ ret.value[p].best_match = "unknown"
          /\ ret.value[q].best_match # "unknown"

\* C4: with at least one reference, find_closest returns, for every candidate
\* i, an index in [0, M) and a score that is the similarity at that index and
\* the maximum similarity of row i.
C4_BestIsRowMaximum ==
    (FcCalled /\ Len(fc_in.references) >= 1) =>
        /\ fc_out.kind = "return"
        /\ Len(fc_out.value[1]) = Len(fc_in.embeddings)
        /\ Len(fc_out.value[2]) = Len(fc_in.embeddings)
        /\ \A i \in 1..Len(fc_in.embeddings) :
              /\ fc_out.value[1][i] \in 0..(Len(fc_in.references) - 1)
              /\ fc_out.value[2][i] = Sim(i, fc_out.value[1][i] + 1)
              /\ \A j \in 1..Len(fc_in.references) : Sim(i, j) <= fc_out.value[2][i]

\* a direct call with two references and a candidate strictly closer to the
\* second reference
C4_Witness ==
    /\ op = "find_closest"
    /\ FcReturned
    /\ Len(fc_in.references) = 2
    /\ \E i \in 1..Len(fc_in.embeddings) :
          /\ fc_out.value[1][i] = 1
          /\ Sim(i, 1) < Sim(i, 2)

\* C5: when several references attain the maximum similarity of candidate i,
\* find_closest selects the lowest index, and the name of a named face is
\* that of the first reference attaining the maximum.
C5_FirstMaximumWins ==
    /\ FcReturned =>
          \A i \in 1..Len(fc_in.embeddings) :
              \A j \in 1..Len(fc_in.references) :
                  j < fc_out.value[1][i] + 1 => Sim(i, j) < fc_out.value[2][i]
    /\ Returned =>
          \A p \in 1..Len(ret.value) :
              ret.value[p].best_match # "unknown" =>
                  \E j \in 1..Len(reference.names) :
                      /\ ret.value[p].best_match = reference.names[j]
                      /\ \A k \in 1..Len(reference.names) :
                            /\ Sim(ret.value[p].id + 1, k) <= Sim(ret.value[p].id + 1, j)
                            /\ k < j => Sim(ret.value[p].id + 1, k)
                                            < Sim(ret.value[p].id + 1, j)

\* a face equally similar to two references of different names, named after
\* the first
C5_Witness ==
    /\ Returned
    /\ Len(reference.names) = 2
    /\ reference.names[1] # reference.names[2]
    /\ \E p \in 1..Len(ret.value) :
          /\ Sim(ret.value[p].id + 1, 1) = Sim(ret.value[p].id + 1, 2)
          /\ ret.value[p].best_match = reference.names[1]

\* C6: find_closest called with an empty reference set fails for every
\* number of candidates; it never returns indices and scores.
C6_EmptyReferencesRaise ==
    (FcCalled /\ Len(fc_in.references) = 0) => fc_out = Raise("ValueError")

\* a call with no candidate and no reference that failed
C6_Witness ==
    /\ op = "find_closest"
    /\ fc_in.embeddings = <<>>
    /\ fc_in.references = <<>>
    /\ fc_out.kind = "raise"

\* C7: if the detector returns no faces, recoginze returns the empty list and
\* invokes neither the encoder nor find_closest, whatever the reference.
C7_NoFacesNoEngine ==
    (op = "recoginze" /\ detected = <<>>) =>
        /\ ret = Return(<<>>)
        /\ calls = <<"find_faces">>
        /\ fc_in = NotCalled
        /\ fc_out = NotCalled

\* no face detected by a matcher whose reference is empty
C7_Witness ==
    /\ op = "recoginze"
    /\ detected = <<>>
    /\ reference.embeddings = <<>>
    /\ ret.kind = "return"

\* C8: if the encoder returns a number of embeddings different from the
\* number of detected faces, recoginze raises and returns no list.
C8_LengthMismatchRaises ==
    (op = "recoginze" /\ Len(calls) >= 2 /\ Len(embeddings) # Len(detected))
        => ret.kind = "raise"

\* C9: the 'id' of a result is the 0-based index of its face in the
\* detector's output, so the ids of a returned list are a permutation of
\* 0..N-1, whatever the position of the result in the sorted list.
C9_IdIsDetectionIndex ==
    Returned =>
        /\ \A p \in 1..Len(ret.value) :
              /\ ret.value[p].id \in 0..(Len(detected) - 1)
              /\ ret.value[p].coordinates = detected[ret.value[p].id + 1].box
              /\ fc_out.value[2][ret.value[p].id + 1] > threshold
                     => ret.value[p].distance = fc_out.value[2][ret.value[p].id + 1]
        /\ \A i \in 0..(Len(detected) - 1) :
              Cardinality({p \in 1..Len(ret.value) : ret.value[p].id = i}) = 1

\* a returned list in which a result's id differs from its position
C9_Witness ==
    /\ Returned
    /\ \E p \in 1..Len(ret.value) : ret.value[p].id # p - 1

\* C10: every label of a returned list is a name of the reference or
\* "unknown"; it is never empty.
C10_LabelIsNameOrUnknown ==
    Returned =>
        \A p \in 1..Len(ret.value) :
            /\ ret.value[p].best_match # ""
            /\ \/ ret.value[p].best_match = "unknown"
               \/ \E j \in 1..Len(reference.names) :
                      ret.value[p].best_match = reference.names[j]

\* a returned list with the labels "unknown" and a reference name, from a
\* reference holding the same name twice
C10_Witness ==
    /\ Returned
    /\ Len(reference.names) = 2
    /\ reference.names[1] = reference.names[2]
    /\ \E p, q \in 1..Len(ret.value) :
          /\ ret.value[p].best_match = "unknown"
          /\ ret.value[q].best_match = reference.names[1]

====
